---------------------------- MODULE Spec2Model ----------------------------
(***************************************************************************)
(* A model of src/utils.py: create_class_pairs, random_targets and the     *)
(* labels-from-confidences pair get_labels_np_array / get_labels_tf_tensor.*)
(* Python positions and class ids are 0-based and are kept 0-based here;   *)
(* a Python list l is the TLA+ sequence whose element l[k] is seq[k + 1].  *)
(***************************************************************************)
EXTENDS Integers, Sequences, FiniteSets, TLC

\* ------------------------------------------------------------------ bounds
\* largest dataset size M that is explored
MaxM == 3
\* largest value of the classes / nb_classes argument that is explored
MaxClasses == 3

\* largest number of rows of preds that is explored
MaxRows == 2
\* largest number of columns of preds that is explored
MaxCols == 3
\* confidences explored: 0 .. MaxConf
MaxConf == 1

\* label values explored in a call with n classes: the labels of [0, n) and
\* one label outside it, n
LabelValues(n) == 0 .. n
\* values of the pos and neg arguments (arbitrary scalars, they may be equal)
PosValues == {1}
NegValues == {0, 1}

VARIABLES
    \* ---- create_class_pairs
    y,            \* argument y: the labels, y[p + 1] is the label at position p
    classes,      \* argument classes
    pos,          \* argument pos
    neg,          \* argument neg
    classes_idx,  \* local classes_idx: classes_idx[c + 1] = positions of class c
    d,            \* outer loop variable
    nb,           \* local nb
    i,            \* inner loop variable
    dn,           \* local dn, the partner class drawn
    size,         \* local size
    pairs,        \* local pairs; x[z] is represented by its position z
    scores,       \* local scores
    branch,       \* history: which branch appended pair k ("same" / "other")
    emptyDraws,   \* history: emptyDraws[c + 1] = number of partner draws, made
                  \* for members of class c, that named a class without members
    \* ---- random_targets
    gt,           \* argument gt, then the local gt after the argmax reduction
    gt_ndim,      \* len(gt.shape): 1 for scalar labels, 2 for one-hot rows
    nb_classes,   \* argument nb_classes
    result,       \* local result; result[s + 1] is the entry of sample s
    class_ind,    \* loop variable
    targets,      \* the returned one-hot matrix
    truth,        \* history: the correct label of each sample
    onehot,       \* history: whether the argument gt was given as one-hot rows
    drawn,        \* history: drawn[c + 1] = the class drawn in iteration c
    writers,      \* history: writers[s + 1] = iterations that wrote result[s]
    \* ---- get_labels_np_array, get_labels_tf_tensor
    preds,        \* argument preds of both: preds[r][c] is a confidence
    np_max,       \* get_labels_np_array: local preds_max, one entry per row
    np_y,         \* get_labels_np_array: local y, then the value returned
    tf_max,       \* get_labels_tf_tensor: local preds_max, one entry per row
    tf_y,         \* get_labels_tf_tensor: local y, then the value returned
    \* ---- all
    pc,           \* position in the function that is running
    outcome       \* "running", "returned" or "error"

pairVars == <<y, classes, pos, neg, classes_idx, d, nb, i, dn, size, pairs,
              scores, branch, emptyDraws>>

rtVars == <<gt, gt_ndim, nb_classes, result, class_ind, targets, truth,
            onehot, drawn, writers>>

glVars == <<preds, np_max, np_y, tf_max, tf_y>>

vars == <<pairVars, rtVars, glVars, pc, outcome>>

\* ---------------------------------------------------------------- helpers
\* all sequences over S of length 0 .. n
SeqsUpTo(S, n) == UNION {[1 .. k -> S] : k \in 0 .. n}

\* np.where(y == c)[0]: the positions holding label c, in increasing order
Where(labels, c) ==
    SelectSeq([p \in 1 .. Len(labels) |-> p - 1], LAMBDA q : labels[q + 1] = c)

\* [np.where(y == i)[0] for i in range(classes)]
ClassesIdx(labels, n) == [c \in 1 .. n |-> Where(labels, c - 1)]

\* random.randrange(lo, hi): the values it can return (empty: ValueError)
RandRange(lo, hi) == lo .. (hi - 1)

\* a mutation of PartnerClass: the offset is counted from 0, not from 1
PartnerClassFromZero(c, r, n) == (c + r - 1) % n

\* (d + r) % classes
PartnerClass(c, r, n) == (c + r) % n

\* a mutation of HasMembers: a class with one member counts as empty
HasMembersAboveOne(n) == n > 1

\* the test "if size > 0" that guards the other-class branch
HasMembers(n) == n > 0

\* a mutation of InRangeNb: range(nb - 1), the last member is left out
InRangeNbShort(k, n) == k < n - 1

\* the test of "for i in range(nb)": the body runs for i = 0 .. nb - 1
InRangeNb(k, n) == k < n

\* the variables of random_targets while another function runs
RtIdle ==
    /\ gt = <<>>
    /\ gt_ndim = 1
    /\ nb_classes = 0
    /\ result = <<>>
    /\ class_ind = 0
    /\ targets = <<>>
    /\ truth = <<>>
    /\ onehot = FALSE
    /\ drawn = <<>>
    /\ writers = <<>>

\* the variables of the get_labels functions while another function runs
GlIdle ==
    /\ preds = <<>>
    /\ np_max = <<>>
    /\ np_y = <<>>
    /\ tf_max = <<>>
    /\ tf_y = <<>>

\* the variables of create_class_pairs while another function runs
PairsIdle ==
    /\ y = <<>>
    /\ classes = 0
    /\ pos = 0
    /\ neg = 0
    /\ classes_idx = <<>>
    /\ d = 0
    /\ nb = 0
    /\ i = 0
    /\ dn = 0
    /\ size = 0
    /\ pairs = <<>>
    /\ scores = <<>>
    /\ branch = <<>>
    /\ emptyDraws = <<>>

\* ------------------------------------------------------ create_class_pairs
InitPairs ==
    /\ classes \in 1 .. MaxClasses
    /\ y \in SeqsUpTo(LabelValues(classes), MaxM)
    /\ pos \in PosValues
    /\ neg \in NegValues
    /\ classes_idx = ClassesIdx(y, classes)
    /\ d = 0
    /\ nb = 0
    /\ i = 0
    /\ dn = 0
    /\ size = 0
    /\ pairs = <<>>
    /\ scores = <<>>
    /\ branch = <<>>
    /\ emptyDraws = [c \in 1 .. classes |-> 0]
    /\ pc = "for_d"
    /\ outcome = "running"
    /\ RtIdle
    /\ GlIdle

\* line 54, 56: for d in range(classes): nb = len(classes_idx[d])
ForD ==
    /\ pc = "for_d"
    /\ d < classes
    /\ nb' = Len(classes_idx[d + 1])
    /\ i' = 0
    /\ pc' = "for_i"
    /\ UNCHANGED <<y, classes, pos, neg, classes_idx, d, dn, size, pairs,
                   scores, branch, emptyDraws, outcome, rtVars, glVars>>

\* line 58: range(nb) exhausted, back to the outer loop with the next d
EndForI ==
    /\ pc = "for_i"
    /\ ~InRangeNb(i, nb)
    /\ d' = d + 1
    /\ pc' = "for_d"
    /\ UNCHANGED <<y, classes, pos, neg, classes_idx, nb, i, dn, size, pairs,
                   scores, branch, emptyDraws, outcome, rtVars, glVars>>

\* lines 58-62: for i in range(nb), entering the body with the next i;
\* j = randrange(0, nb); pairs += [[x[z1], x[z2]]]
PosPair ==
    /\ pc = "for_i"
    /\ InRangeNb(i, nb)
    /\ \E j \in RandRange(0, nb) :
          LET z1 == classes_idx[d + 1][i + 1]
              z2 == classes_idx[d + 1][j + 1]
          IN  pairs' = Append(pairs, <<z1, z2>>)
    /\ branch' = Append(branch, "same")
    /\ pc' = "pos_score"
    /\ UNCHANGED <<y, classes, pos, neg, classes_idx, d, nb, i, dn, size,
                   scores, emptyDraws, outcome, rtVars, glVars>>

\* a mutation of PosScore: the same-class branch appends neg
PosScoreAppendsNeg ==
    /\ pc = "pos_score"
    /\ scores' = Append(scores, neg)
    /\ pc' = "draw_dn"
    /\ UNCHANGED <<y, classes, pos, neg, classes_idx, d, nb, i, dn, size,
                   pairs, branch, emptyDraws, outcome, rtVars, glVars>>

\* line 63: scores += [pos]
PosScore ==
    /\ pc = "pos_score"
    /\ scores' = Append(scores, pos)
    /\ pc' = "draw_dn"
    /\ UNCHANGED <<y, classes, pos, neg, classes_idx, d, nb, i, dn, size,
                   pairs, branch, emptyDraws, outcome, rtVars, glVars>>

\* lines 65-67: dn = (d + randrange(1, classes)) % classes; size = ...;
\* randrange(1, 1) has nothing to draw from and raises ValueError
DrawDn ==
    /\ pc = "draw_dn"
    /\ IF RandRange(1, classes) = {}
       THEN /\ pc' = "raised"
            /\ outcome' = "error"
            /\ UNCHANGED <<pairVars, rtVars, glVars>>
       ELSE \E r \in RandRange(1, classes) :
              LET dnew == PartnerClass(d, r, classes)
                  snew == Len(classes_idx[dnew + 1])
              IN  /\ dn' = dnew
                  /\ size' = snew
                  /\ emptyDraws' = [emptyDraws EXCEPT
                                        ![d + 1] = IF snew = 0 THEN @ + 1 ELSE @]
                  /\ IF HasMembers(snew)
                     THEN /\ pc' = "neg_pair"
                          /\ UNCHANGED i
                     ELSE /\ pc' = "for_i"
                          /\ i' = i + 1
                  /\ UNCHANGED <<y, classes, pos, neg, classes_idx, d, nb,
                                 pairs, scores, branch, outcome, rtVars, glVars>>

\* a mutation of NegPair: the two elements of the pair are swapped
NegPairSwapped ==
    /\ pc = "neg_pair"
    /\ \E j \in RandRange(0, size) :
          LET z1 == classes_idx[d + 1][i + 1]
              z2 == classes_idx[dn + 1][j + 1]
          IN  pairs' = Append(pairs, <<z2, z1>>)
    /\ branch' = Append(branch, "other")
    /\ pc' = "neg_score"
    /\ UNCHANGED <<y, classes, pos, neg, classes_idx, d, nb, i, dn, size,
                   scores, emptyDraws, outcome, rtVars, glVars>>

\* lines 68-70: j = randrange(0, size); pairs += [[x[z1], x[z2]]]
NegPair ==
    /\ pc = "neg_pair"
    /\ \E j \in RandRange(0, size) :
          LET z1 == classes_idx[d + 1][i + 1]
              z2 == classes_idx[dn + 1][j + 1]
          IN  pairs' = Append(pairs, <<z1, z2>>)
    /\ branch' = Append(branch, "other")
    /\ pc' = "neg_score"
    /\ UNCHANGED <<y, classes, pos, neg, classes_idx, d, nb, i, dn, size,
                   scores, emptyDraws, outcome, rtVars, glVars>>

\* line 72: scores += [neg], the end of the loop body
NegScore ==
    /\ pc = "neg_score"
    /\ scores' = Append(scores, neg)
    /\ i' = i + 1
    /\ pc' = "for_i"
    /\ UNCHANGED <<y, classes, pos, neg, classes_idx, d, nb, dn, size, pairs,
                   branch, emptyDraws, outcome, rtVars, glVars>>

\* line 74: return np.array(pairs), np.array(scores)
ReturnPairs ==
    /\ pc = "for_d"
    /\ d >= classes
    /\ pc' = "returned"
    /\ outcome' = "returned"
    /\ UNCHANGED <<pairVars, rtVars, glVars>>

NextPairs ==
    \/ ForD
    \/ EndForI
    \/ PosPair
    \/ PosScore
    \/ DrawDn
    \/ NegPair
    \/ NegScore
    \/ ReturnPairs

SpecPairs == InitPairs /\ [][NextPairs]_vars

\* ------------------------------------------- create_class_pairs: vocabulary
\* the dataset positions 0 .. M - 1
Positions == 0 .. (Len(y) - 1)

\* label(p), read from the argument y
LabelOf(p) == y[p + 1]

\* n_c: the number of dataset positions whose label is c
MembersOf(c) == Cardinality({p \in Positions : LabelOf(p) = c})

\* every label lies in [0, classes)
LabelsInRange == \A p \in Positions : LabelOf(p) < classes

\* the states between two statements of the loops: a body has run to its
\* end, or no body has started, or the function has returned
AtLoopBoundary == pc \in {"for_d", "for_i", "returned"}

\* the indices of the pairs appended by branch b whose first element has label c
PairsOfClass(b, c) ==
    {k \in 1 .. Len(pairs) : branch[k] = b /\ LabelOf(pairs[k][1]) = c}

\* the indices k at which scores[k] = v
ScoredAs(v) == {k \in 1 .. Len(scores) : scores[k] = v}

\* position a comes before position b in the order by (label, position)
Before(a, b) ==
    \/ LabelOf(a) < LabelOf(b)
    \/ LabelOf(a) = LabelOf(b) /\ a < b

\* ------------------------------------------------------------------ C1
\* C1 as stated: with classes >= 2, whenever an iteration of the inner loop
\* has completed and on return, pairs and scores have the same length, and
\* scores[k] is pos exactly when pair k came from the same-class branch and
\* neg exactly when it came from the other-class branch.
C1_AlignedExactly ==
    (classes >= 2 /\ AtLoopBoundary) =>
        /\ Len(pairs) = Len(scores)
        /\ \A k \in 1 .. Len(pairs) :
              /\ scores[k] = pos <=> branch[k] = "same"
              /\ scores[k] = neg <=> branch[k] = "other"

\* C1 amended: same lengths at every loop boundary and on return; scores[k]
\* is pos if pair k came from the same-class branch and neg if it came from
\* the other-class branch; the converse holds when pos and neg differ.
C1_Aligned ==
    (classes >= 2 /\ AtLoopBoundary) =>
        /\ Len(pairs) = Len(scores)
        /\ \A k \in 1 .. Len(pairs) :
              /\ branch[k] = "same" => scores[k] = pos
              /\ branch[k] = "other" => scores[k] = neg
              /\ pos # neg => (scores[k] = pos => branch[k] = "same")
              /\ pos # neg => (scores[k] = neg => branch[k] = "other")

\* an inner iteration that appended a pair in both branches has completed
C1_Witness ==
    /\ classes >= 2
    /\ pc = "for_i"
    /\ i >= 1
    /\ pos # neg
    /\ Len(pairs) >= 3
    /\ \E k \in 1 .. Len(pairs) : branch[k] = "other"

\* ------------------------------------------------------------------ C2
\* C2: on return, with classes >= 2, labels in [0, classes) and pos # neg,
\* for every class c exactly n_c pairs scored pos have a first element of
\* class c, and the pairs scored pos number M in all.
C2_PositiveCount ==
    (outcome = "returned" /\ classes >= 2 /\ LabelsInRange /\ pos # neg) =>
        /\ \A c \in 0 .. (classes - 1) :
              Cardinality({k \in ScoredAs(pos) : LabelOf(pairs[k][1]) = c})
                  = MembersOf(c)
        /\ Cardinality(ScoredAs(pos)) = Len(y)

\* a returned call over a class with two members and another with one
C2_Witness ==
    /\ outcome = "returned"
    /\ classes >= 2
    /\ LabelsInRange
    /\ pos # neg
    /\ \E c \in 0 .. (classes - 1) : MembersOf(c) >= 2
    /\ \E c \in 0 .. (classes - 1) : MembersOf(c) = 1

\* ------------------------------------------------------------------ C3
\* C3 as stated: on return, with classes >= 2 and labels in [0, classes),
\* every pair scored pos joins two positions of equal label and every pair
\* scored neg joins two positions of different labels; the partner class
\* drawn is never d.
C3_LabelsByScore ==
    (classes >= 2 /\ LabelsInRange) =>
        /\ outcome = "returned" =>
              \A k \in 1 .. Len(pairs) :
                 /\ scores[k] = pos =>
                       LabelOf(pairs[k][1]) = LabelOf(pairs[k][2])
                 /\ scores[k] = neg =>
                       LabelOf(pairs[k][1]) # LabelOf(pairs[k][2])
        /\ pc \in {"neg_pair", "neg_score"} => dn # d

\* C3 amended: the same, for calls in which pos and neg differ; whatever pos
\* and neg are, a pair appended by the same-class branch joins equal labels
\* and one appended by the other-class branch joins different labels.
C3_LabelsByScoreDistinct ==
    (classes >= 2 /\ LabelsInRange) =>
        /\ outcome = "returned" =>
              \A k \in 1 .. Len(pairs) :
                 /\ (pos # neg /\ scores[k] = pos) =>
                       LabelOf(pairs[k][1]) = LabelOf(pairs[k][2])
                 /\ (pos # neg /\ scores[k] = neg) =>
                       LabelOf(pairs[k][1]) # LabelOf(pairs[k][2])
                 /\ branch[k] = "same" =>
                       LabelOf(pairs[k][1]) = LabelOf(pairs[k][2])
                 /\ branch[k] = "other" =>
                       LabelOf(pairs[k][1]) # LabelOf(pairs[k][2])
        /\ pc \in {"neg_pair", "neg_score"} => dn # d

\* a returned call with a self-paired positive pair and a negative pair
C3_Witness ==
    /\ outcome = "returned"
    /\ classes >= 2
    /\ LabelsInRange
    /\ pos # neg
    /\ \E k \in ScoredAs(pos) : pairs[k][1] = pairs[k][2]
    /\ \E k \in ScoredAs(pos) : pairs[k][1] # pairs[k][2]
    /\ ScoredAs(neg) # {}

\* ------------------------------------------------------------------ C4
\* C4: pairs are appended in class order and, within a class, in increasing
\* position of the member; a member's positive pair comes first, then its
\* negative pair if one is emitted, then the pairs of later members. So the
\* first elements, in output order, are the positions sorted by (label,
\* position), each once or twice in a row; on return every position with a
\* label in [0, classes) is among them.
C4_AppendOrder ==
    /\ Len(branch) = Len(pairs)
    /\ Len(pairs) >= 1 => branch[1] = "same"
    /\ \A k \in 1 .. (Len(pairs) - 1) :
          \/ /\ pairs[k][1] = pairs[k + 1][1]
             /\ branch[k] = "same"
             /\ branch[k + 1] = "other"
          \/ /\ Before(pairs[k][1], pairs[k + 1][1])
             /\ branch[k + 1] = "same"
    /\ outcome = "returned" =>
          {pairs[k][1] : k \in 1 .. Len(pairs)}
              = {p \in Positions : LabelOf(p) < classes}

\* a returned call whose output holds a member with both pairs, a member
\* with its positive pair only, and members of two classes
C4_Witness ==
    /\ outcome = "returned"
    /\ \E k \in 1 .. (Len(pairs) - 1) : pairs[k][1] = pairs[k + 1][1]
    /\ \E k \in 1 .. (Len(pairs) - 1) :
          branch[k] = "same" /\ branch[k + 1] = "same"
    /\ \E k \in 1 .. (Len(pairs) - 1) :
          LabelOf(pairs[k][1]) < LabelOf(pairs[k + 1][1])

C6_OneClassFails == classes = 1 => outcome # "returned"

\* ------------------------------------------------------------------ C7
\* C7: a call in which some label lies outside [0, classes) never returns.
C7_BadLabelFails == ~LabelsInRange => outcome # "returned"

\* ----------------------------------------------------------- random_targets
\* np.argmax of one row: the first position holding the row's maximum
ArgMax(row) ==
    CHOOSE k \in 0 .. (Len(row) - 1) :
        /\ \A j \in 0 .. (Len(row) - 1) : row[j + 1] <= row[k + 1]
        /\ \A j \in 0 .. (k - 1) : row[j + 1] < row[k + 1]

\* the one-hot row of width n for class c
OneHotRow(c, n) == [k \in 1 .. n |-> IF k - 1 = c THEN 1 ELSE 0]

\* np_utils.to_categorical(result, nb_classes)
ToCategorical(r, n) == [s \in 1 .. Len(r) |-> OneHotRow(r[s], n)]

\* a mutation of OtherClasses: class_ind is not removed
OtherClassesAll(c, n) == 0 .. (n - 1)

\* lines 30-31: list(range(nb_classes)) with class_ind removed
OtherClasses(c, n) == (0 .. (n - 1)) \ {c}

\* a mutation of InCl: the mask is gt >= class_ind
InClFrom(g, c) == {s \in 1 .. Len(g) : g[s] >= c}

\* line 32: in_cl = gt == class_ind, as the set of samples the mask selects
InCl(g, c) == {s \in 1 .. Len(g) : g[s] = c}

\* a call with scalar labels (in or out of range) or with one-hot rows
\* of width nb_classes
InitTargets ==
    /\ nb_classes \in 1 .. MaxClasses
    /\ gt_ndim \in {1, 2}
    /\ truth \in SeqsUpTo(LabelValues(nb_classes), MaxM)
    /\ gt_ndim = 2 => \A s \in 1 .. Len(truth) : truth[s] < nb_classes
    /\ onehot = (gt_ndim = 2)
    /\ gt = IF gt_ndim = 2
            THEN [s \in 1 .. Len(truth) |-> OneHotRow(truth[s], nb_classes)]
            ELSE truth
    /\ result = <<>>
    /\ class_ind = 0
    /\ targets = <<>>
    /\ drawn = <<>>
    /\ writers = [s \in 1 .. Len(truth) |-> <<>>]
    /\ pc = "rt_begin"
    /\ outcome = "running"
    /\ PairsIdle
    /\ GlIdle

\* lines 24-27: reduce one-hot rows by argmax; result = np.zeros(gt.shape)
RtBegin ==
    /\ pc = "rt_begin"
    /\ IF gt_ndim > 1
       THEN /\ gt' = [s \in 1 .. Len(gt) |-> ArgMax(gt[s])]
            /\ gt_ndim' = 1
       ELSE UNCHANGED <<gt, gt_ndim>>
    /\ result' = [s \in 1 .. Len(gt) |-> 0]
    /\ pc' = "rt_for"
    /\ UNCHANGED <<nb_classes, class_ind, targets, truth, onehot, drawn, writers,
                   outcome, pairVars, glVars>>

\* lines 29-33: one iteration of the loop over class_ind;
\* np.random.choice of an empty list raises ValueError
RtForClass ==
    /\ pc = "rt_for"
    /\ class_ind < nb_classes
    /\ IF OtherClasses(class_ind, nb_classes) = {}
       THEN /\ pc' = "raised"
            /\ outcome' = "error"
            /\ UNCHANGED <<rtVars, pairVars, glVars>>
       ELSE \E t \in OtherClasses(class_ind, nb_classes) :
              LET in_cl == InCl(gt, class_ind)
              IN  /\ result' = [s \in 1 .. Len(result) |->
                                   IF s \in in_cl THEN t ELSE result[s]]
                  /\ writers' = [s \in 1 .. Len(writers) |->
                                   IF s \in in_cl
                                   THEN Append(writers[s], class_ind)
                                   ELSE writers[s]]
                  /\ drawn' = Append(drawn, t)
                  /\ class_ind' = class_ind + 1
                  /\ UNCHANGED <<gt, gt_ndim, nb_classes, targets, truth, onehot, pc,
                                 outcome, pairVars, glVars>>

\* line 35: return np_utils.to_categorical(result, nb_classes)
RtReturn ==
    /\ pc = "rt_for"
    /\ class_ind >= nb_classes
    /\ targets' = ToCategorical(result, nb_classes)
    /\ pc' = "returned"
    /\ outcome' = "returned"
    /\ UNCHANGED <<gt, gt_ndim, nb_classes, result, class_ind, truth, onehot, drawn,
                   writers, pairVars, glVars>>

NextTargets ==
    \/ RtBegin
    \/ RtForClass
    \/ RtReturn

SpecTargets == InitTargets /\ [][NextTargets]_vars

\* --------------------------------------------------- random_targets: claims
\* the samples, as indices into the sequences
Samples == 1 .. Len(truth)

\* the classes a returned row marks
MarkedIn(row) == {c \in 0 .. (Len(row) - 1) : row[c + 1] = 1}

\* every correct label lies in [0, nb_classes)
TruthInRange == \A s \in Samples : truth[s] < nb_classes

\* ------------------------------------------------------------------ C8
\* C8: on return, with nb_classes >= 2 and labels in [0, nb_classes), every
\* returned row has width nb_classes and marks exactly one class, and that
\* class differs from the sample's correct label.
C8_TargetDiffers ==
    (outcome = "returned" /\ nb_classes >= 2 /\ TruthInRange) =>
        /\ Len(targets) = Len(truth)
        /\ \A s \in Samples :
              /\ Len(targets[s]) = nb_classes
              /\ Cardinality(MarkedIn(targets[s])) = 1
              /\ truth[s] \notin MarkedIn(targets[s])

\* a returned call on one-hot rows, reduced by argmax, with two different
\* labels, none of them 0, and a target that is not the initial 0
C8_Witness ==
    /\ outcome = "returned"
    /\ onehot
    /\ nb_classes >= 3
    /\ Len(drawn) = nb_classes
    /\ Len(truth) >= 2
    /\ \E s, u \in Samples : truth[s] # truth[u]
    /\ \A s \in Samples : truth[s] > 0 /\ truth[s] < nb_classes
    /\ \E s \in Samples : targets[s] # OneHotRow(0, nb_classes)

\* ------------------------------------------------------------------ C9
\* C9: the loop draws once per class index, for empty classes too; once the
\* iteration of a sample's class has run, the sample's entry is that
\* iteration's draw and stays so; an entry is written by the iteration of
\* its own class only; so two samples with the same correct label are
\* returned the same target.
C9_SharedPerClass ==
    (pc \in {"rt_for", "returned"} /\ TruthInRange) =>
        /\ Len(drawn) = class_ind
        /\ outcome = "returned" => Len(drawn) = nb_classes
        /\ \A s \in Samples :
              /\ truth[s] < class_ind =>
                    /\ result[s] = drawn[truth[s] + 1]
                    /\ writers[s] = <<truth[s]>>
              /\ truth[s] >= class_ind => writers[s] = <<>>
        /\ outcome = "returned" =>
              \A s, u \in Samples :
                 truth[s] = truth[u] => targets[s] = targets[u]

\* a returned call with two samples of one class, a sample of a later class
\* whose draw differs, and a class without samples
C9_Witness ==
    /\ outcome = "returned"
    /\ TruthInRange
    /\ \E s, u \in Samples : s # u /\ truth[s] = truth[u]
    /\ \E s, u \in Samples : truth[s] < truth[u] /\ targets[s] # targets[u]
    /\ \E c \in 0 .. (nb_classes - 1) : \A s \in Samples : truth[s] # c

\* ---------------------------- get_labels_np_array and get_labels_tf_tensor
\* A float is modelled as an exact fraction <<numerator, denominator>>.
FloatOf(b) == IF b THEN <<1, 1>> ELSE <<0, 1>>

\* a / b
Divide(a, b) == <<a[1] * b[2], a[2] * b[1]>>

\* a + b
Plus(a, b) == <<a[1] * b[2] + b[1] * a[2], a[2] * b[2]>>

\* a = b as numbers
SameFloat(a, b) == a[1] * b[2] = b[1] * a[2]

\* np.amax / tf.reduce_max of one row
RowMax(row) == CHOOSE m \in {row[c] : c \in 1 .. Len(row)} :
                   \A c \in 1 .. Len(row) : row[c] <= m

\* np.amax(preds, axis=1, keepdims=True) and tf.reduce_max(preds, 1, ...)
AMax(m) == [r \in 1 .. Len(m) |-> RowMax(m[r])]

\* (preds == preds_max).astype(float) and tf.to_float(tf.equal(...))
EqualsMax(m, mx) ==
    [r \in 1 .. Len(m) |-> [c \in 1 .. Len(m[r]) |-> FloatOf(m[r][c] = mx[r])]]

\* the sum of one row of floats
RECURSIVE RowSum(_)
RowSum(row) ==
    IF row = <<>> THEN <<0, 1>>
    ELSE Plus(row[1], RowSum(Tail(row)))

\* y /= tf.reduce_sum(y, 1, keep_dims=True)
DivideByRowSum(m) ==
    [r \in 1 .. Len(m) |->
        [c \in 1 .. Len(m[r]) |-> Divide(m[r][c], RowSum(m[r]))]]

\* the matrices of confidences explored: 0 .. MaxRows rows of a common width
PredsValues ==
    UNION {[1 .. rows -> [1 .. cols -> 0 .. MaxConf]] :
              rows \in 0 .. MaxRows, cols \in 1 .. MaxCols}

InitLabels ==
    /\ preds \in PredsValues
    /\ np_max = <<>>
    /\ np_y = <<>>
    /\ tf_max = <<>>
    /\ tf_y = <<>>
    /\ pc = "np_amax"
    /\ outcome = "running"
    /\ PairsIdle
    /\ RtIdle

\* line 112: preds_max = np.amax(preds, axis=1, keepdims=True)
NpAmax ==
    /\ pc = "np_amax"
    /\ np_max' = AMax(preds)
    /\ pc' = "np_equal"
    /\ UNCHANGED <<preds, np_y, tf_max, tf_y, outcome, pairVars, rtVars>>

\* lines 113-115: y = (preds == preds_max).astype(float); return y
NpEqual ==
    /\ pc = "np_equal"
    /\ np_y' = EqualsMax(preds, np_max)
    /\ pc' = "tf_reduce_max"
    /\ UNCHANGED <<preds, np_max, tf_max, tf_y, outcome, pairVars, rtVars>>

\* line 97: preds_max = tf.reduce_max(preds, 1, keep_dims=True)
TfReduceMax ==
    /\ pc = "tf_reduce_max"
    /\ tf_max' = AMax(preds)
    /\ pc' = "tf_equal"
    /\ UNCHANGED <<preds, np_max, np_y, tf_y, outcome, pairVars, rtVars>>

\* line 98: y = tf.to_float(tf.equal(preds, preds_max))
TfEqual ==
    /\ pc = "tf_equal"
    /\ tf_y' = EqualsMax(preds, tf_max)
    /\ pc' = "tf_divide"
    /\ UNCHANGED <<preds, np_max, np_y, tf_max, outcome, pairVars, rtVars>>

\* lines 99-101: y /= tf.reduce_sum(y, 1, keep_dims=True); return y
TfDivide ==
    /\ pc = "tf_divide"
    /\ tf_y' = DivideByRowSum(tf_y)
    /\ pc' = "returned"
    /\ outcome' = "returned"
    /\ UNCHANGED <<preds, np_max, np_y, tf_max, pairVars, rtVars>>

NextLabels ==
    \/ NpAmax
    \/ NpEqual
    \/ TfReduceMax
    \/ TfEqual
    \/ TfDivide

SpecLabels == InitLabels /\ [][NextLabels]_vars

\* ------------------------------------------------------------------ C10
\* the columns of row r that hold the row's maximum
MaxColumns(r) ==
    {c \in 1 .. Len(preds[r]) :
        \A e \in 1 .. Len(preds[r]) : preds[r][e] <= preds[r][c]}

\* in row r of out, the k columns of the maximum hold 1/k and the others 0
SplitsEvenly(out, r) ==
    /\ Len(out[r]) = Len(preds[r])
    /\ \A c \in 1 .. Len(preds[r]) :
          IF c \in MaxColumns(r)
          THEN SameFloat(out[r][c], <<1, Cardinality(MaxColumns(r))>>)
          ELSE SameFloat(out[r][c], <<0, 1>>)
    /\ SameFloat(RowSum(out[r]), <<1, 1>>)

\* C10: once both versions have returned, every row of the numpy result and
\* of the tensor result is non-zero exactly at the row's maxima, k tied
\* maxima hold 1/k each, every row sums to 1, and the two results are equal.
C10_TiesSplitEvenly ==
    outcome = "returned" =>
        /\ Len(np_y) = Len(preds)
        /\ Len(tf_y) = Len(preds)
        /\ \A r \in 1 .. Len(preds) :
              /\ SplitsEvenly(np_y, r)
              /\ SplitsEvenly(tf_y, r)
              /\ \A c \in 1 .. Len(preds[r]) :
                    SameFloat(np_y[r][c], tf_y[r][c])

=============================================================================
